---- MODULE Spec2Model ----
(***************************************************************************)
(* Model of stages/01_download_build.py: the CPIC download pipeline.       *)
(*                                                                         *)
(* Strings are sequences of one-character strings, so that the column-name *)
(* standardisation, json.dumps and the sort of the file names are computed *)
(* character by character.  A JSON value (and a DataFrame cell) is a       *)
(* record [t, v] whose tag t is the Python type that isinstance() sees.    *)
(***************************************************************************)
EXTENDS Integers, Sequences, FiniteSets, TLC

----------------------------------------------------------------------------
(* Characters and Python str methods                                       *)

Uppers == <<"A","B","C","D","E","F","G","H","I","J","K","L","M",
            "N","O","P","Q","R","S","T","U","V","W","X","Y","Z">>

Lowers == <<"a","b","c","d","e","f","g","h","i","j","k","l","m",
            "n","o","p","q","r","s","t","u","v","w","x","y","z">>

Digits == <<"0","1","2","3","4","5","6","7","8","9">>

IndexIn(seq, c) == CHOOSE i \in 1..Len(seq) : seq[i] = c

IsIn(seq, c) == \E i \in 1..Len(seq) : seq[i] = c

\* code point of a character (the ones file and column names are made of)
Ord(c) ==
    IF c = " " THEN 32
    ELSE IF c = "-" THEN 45
    ELSE IF c = "." THEN 46
    ELSE IF IsIn(Digits, c) THEN 47 + IndexIn(Digits, c)
    ELSE IF IsIn(Uppers, c) THEN 64 + IndexIn(Uppers, c)
    ELSE IF c = "_" THEN 95
    ELSE 96 + IndexIn(Lowers, c)

\* str.__lt__: lexicographic by code point, a proper prefix is smaller
RECURSIVE StrLess(_, _)
StrLess(a, b) ==
    IF b = <<>> THEN FALSE
    ELSE IF a = <<>> THEN TRUE
    ELSE IF Head(a) = Head(b) THEN StrLess(Tail(a), Tail(b))
    ELSE Ord(Head(a)) < Ord(Head(b))

\* str.strip()
RECURSIVE LStrip(_)
LStrip(s) == IF s # <<>> /\ Head(s) = " " THEN LStrip(Tail(s)) ELSE s

RECURSIVE RStrip(_)
RStrip(s) ==
    IF s # <<>> /\ s[Len(s)] = " " THEN RStrip(SubSeq(s, 1, Len(s) - 1)) ELSE s

Strip(s) == RStrip(LStrip(s))

\* str.lower()
LowerChar(c) == IF IsIn(Uppers, c) THEN Lowers[IndexIn(Uppers, c)] ELSE c

Lower(s) == [i \in 1..Len(s) |-> LowerChar(s[i])]

\* str.replace(old, new) for one-character old and new
Replace(s, old, new) == [i \in 1..Len(s) |-> IF s[i] = old THEN new ELSE s[i]]

NoStandardize(c) == Replace(Replace(Strip(c), " ", "_"), "-", "_")

\* line 66: str(c).strip().lower().replace(' ', '_').replace('-', '_')
Standardize(c) == Replace(Replace(Lower(Strip(c)), " ", "_"), "-", "_")

----------------------------------------------------------------------------
(* JSON values, json.dumps and json.loads                                  *)

Null == [t |-> "null", v |-> <<>>]

Num(n) == [t |-> "int", v |-> n]

Str(s) == [t |-> "str", v |-> s]

List(items) == [t |-> "list", v |-> items]

\* members: a sequence of <<key, value>> pairs, in insertion order
Dict(members) == [t |-> "dict", v |-> members]

IsNull(x) == x.t = "null"

IsDict(x) == x.t = "dict"

IsList(x) == x.t = "list"

IsNested(x) == IsDict(x) \/ IsList(x)

RECURSIVE IntStr(_)
IntStr(n) ==
    IF n < 10 THEN <<Digits[n + 1]>>
    ELSE IntStr(n \div 10) \o <<Digits[(n % 10) + 1]>>

RECURSIVE Escape(_)
Escape(s) ==
    IF s = <<>> THEN <<>>
    ELSE (IF Head(s) = "\"" THEN <<"\\", "\"">>
          ELSE IF Head(s) = "\\" THEN <<"\\", "\\">>
          ELSE <<Head(s)>>) \o Escape(Tail(s))

Quote(s) == <<"\"">> \o Escape(s) \o <<"\"">>

RECURSIVE Dumps(_)
RECURSIVE DumpsItems(_)
RECURSIVE DumpsMembers(_)

\* json.dumps with the default separators (', ', ': ')
Dumps(x) ==
    CASE x.t = "null" -> <<"n","u","l","l">>
      [] x.t = "int"  -> IntStr(x.v)
      [] x.t = "str"  -> Quote(x.v)
      [] x.t = "list" -> <<"[">> \o DumpsItems(x.v) \o <<"]">>
      [] x.t = "dict" -> <<"{">> \o DumpsMembers(x.v) \o <<"}">>

DumpsItems(s) ==
    IF s = <<>> THEN <<>>
    ELSE Dumps(Head(s))
         \o (IF Len(s) > 1 THEN <<",", " ">> \o DumpsItems(Tail(s)) ELSE <<>>)

DumpsMembers(s) ==
    IF s = <<>> THEN <<>>
    ELSE Quote(Head(s)[1]) \o <<":", " ">> \o Dumps(Head(s)[2])
         \o (IF Len(s) > 1 THEN <<",", " ">> \o DumpsMembers(Tail(s)) ELSE <<>>)

\* json.loads, the parser that reads a flattened cell back (spec section 8:
\* "parsing that string reproduces the original structure")
RECURSIVE SkipWs(_, _)
SkipWs(s, i) == IF i <= Len(s) /\ s[i] = " " THEN SkipWs(s, i + 1) ELSE i

\* i is just past the opening quote
RECURSIVE ParseString(_, _, _)
ParseString(s, i, acc) ==
    IF s[i] = "\"" THEN [val |-> acc, pos |-> i + 1]
    ELSE IF s[i] = "\\" THEN ParseString(s, i + 2, Append(acc, s[i + 1]))
    ELSE ParseString(s, i + 1, Append(acc, s[i]))

RECURSIVE ParseInt(_, _, _)
ParseInt(s, i, acc) ==
    IF i <= Len(s) /\ IsIn(Digits, s[i])
    THEN ParseInt(s, i + 1, acc * 10 + (IndexIn(Digits, s[i]) - 1))
    ELSE [val |-> Num(acc), pos |-> i]

RECURSIVE ParseValue(_, _)
RECURSIVE ParseItems(_, _, _)
RECURSIVE ParseMembers(_, _, _)

ParseValue(s, i) ==
    LET j == SkipWs(s, i) IN
    CASE s[j] = "n"  -> [val |-> Null, pos |-> j + 4]
      [] s[j] = "\"" -> LET r == ParseString(s, j + 1, <<>>)
                        IN  [val |-> Str(r.val), pos |-> r.pos]
      [] s[j] = "["  -> ParseItems(s, j + 1, <<>>)
      [] s[j] = "{"  -> ParseMembers(s, j + 1, <<>>)
      [] OTHER       -> ParseInt(s, j, 0)

ParseItems(s, i, acc) ==
    LET j == SkipWs(s, i) IN
    IF s[j] = "]" THEN [val |-> List(acc), pos |-> j + 1]
    ELSE IF s[j] = "," THEN ParseItems(s, j + 1, acc)
    ELSE LET r == ParseValue(s, j) IN ParseItems(s, r.pos, Append(acc, r.val))

ParseMembers(s, i, acc) ==
    LET j == SkipWs(s, i) IN
    IF s[j] = "}" THEN [val |-> Dict(acc), pos |-> j + 1]
    ELSE IF s[j] = "," THEN ParseMembers(s, j + 1, acc)
    ELSE LET k == ParseString(s, j + 1, <<>>)
             c == SkipWs(s, k.pos)
             r == ParseValue(s, c + 1)
         IN  ParseMembers(s, r.pos, Append(acc, <<k.val, r.val>>))

\* json.loads
Loads(s) == ParseValue(s, 1).val

----------------------------------------------------------------------------
(* pandas: a DataFrame is [columns, rows]; rows[r][c] is the cell of row r *)
(* in the c-th column.  A Record is a sequence of <<key, value>> pairs.    *)

RECURSIVE AddKeys(_, _)
AddKeys(cols, rec) ==
    IF rec = <<>> THEN cols
    ELSE AddKeys(IF IsIn(cols, Head(rec)[1]) THEN cols
                 ELSE Append(cols, Head(rec)[1]), Tail(rec))

\* the union of the keys of all Records, in order of first appearance
RECURSIVE UnionKeys(_, _)
UnionKeys(cols, data) ==
    IF data = <<>> THEN cols
    ELSE UnionKeys(AddKeys(cols, Head(data)), Tail(data))

HasKey(rec, k) == \E i \in 1..Len(rec) : rec[i][1] = k

\* a key the Record lacks gives a null cell
Get(rec, k) ==
    IF HasKey(rec, k) THEN rec[CHOOSE i \in 1..Len(rec) : rec[i][1] = k][2]
    ELSE Null

DataFrameDropNull(data) ==
    LET cols == UnionKeys(<<>>, data)
        kept == SelectSeq(data, LAMBDA rec :
                    \A c \in 1..Len(cols) : ~IsNull(Get(rec, cols[c])))
    IN  [columns |-> cols,
         rows    |-> [r \in 1..Len(kept) |->
                        [c \in 1..Len(cols) |-> Get(kept[r], cols[c])]]]

\* line 63: pd.DataFrame(data), one row per Record
DataFrame(data) ==
    LET cols == UnionKeys(<<>>, data)
    IN  [columns |-> cols,
         rows    |-> [r \in 1..Len(data) |->
                        [c \in 1..Len(cols) |-> Get(data[r], cols[c])]]]

\* line 66: df.columns = [...]
RenameColumns(df) ==
    [df EXCEPT !.columns = [c \in 1..Len(df.columns) |-> Standardize(df.columns[c])]]

HasDuplicateColumns(df) ==
    \E i, j \in 1..Len(df.columns) : i # j /\ df.columns[i] = df.columns[j]

\* df[col] of a column whose name is unique: the cells of the column
Column(df, col) ==
    LET c == IndexIn(df.columns, col)
    IN  [r \in 1..Len(df.rows) |-> df.rows[r][c]]

\* df[col].dtype == 'object': numbers (with NaN for the missing) get a
\* numeric dtype, everything else, and the all-None column, is object
DtypeIsObject(cells) ==
    \/ \A r \in 1..Len(cells) : IsNull(cells[r])
    \/ \E r \in 1..Len(cells) : cells[r].t \notin {"null", "int"}

\* df[col].dropna().head(1).values: the first non-null cell, if any
Sample(cells) ==
    LET nn == SelectSeq(cells, LAMBDA x : ~IsNull(x))
    IN  IF nn = <<>> THEN <<>> ELSE <<Head(nn)>>

DumpIfNested(x) == IF IsNested(x) THEN Str(Dumps(x)) ELSE x

DumpIfDict(x) == IF IsDict(x) THEN Str(Dumps(x)) ELSE x

DumpIfList(x) == IF IsList(x) THEN Str(Dumps(x)) ELSE x

KeepDictColumn(df, col) == df

\* df[col] = df[col].apply(lambda x: json.dumps(x) if isinstance(x, dict) else x)
flatten_dict_column(df, col) ==
    IF IsIn(df.columns, col)
    THEN LET c == IndexIn(df.columns, col)
         IN  [df EXCEPT !.rows = [r \in 1..Len(df.rows) |->
                [df.rows[r] EXCEPT ![c] = DumpIfDict(df.rows[r][c])]]]
    ELSE df

flatten_list_column(df, col) ==
    IF IsIn(df.columns, col)
    THEN LET c == IndexIn(df.columns, col)
         IN  [df EXCEPT !.rows = [r \in 1..Len(df.rows) |->
                [df.rows[r] EXCEPT ![c] = DumpIfList(df.rows[r][c])]]]
    ELSE df

\* lines 70-76, the body of the loop for one column
FlattenOne(df, col) ==
    LET cells  == Column(df, col)
        sample == Sample(cells)
    IN  IF DtypeIsObject(cells) /\ Len(sample) > 0
        THEN IF IsDict(sample[1]) THEN flatten_dict_column(df, col)
             ELSE IF IsList(sample[1]) THEN flatten_list_column(df, col)
             ELSE df
        ELSE df

\* lines 69-76: for col in df.columns
RECURSIVE FlattenFrom(_, _)
FlattenFrom(df, c) ==
    IF c > Len(df.columns) THEN df
    ELSE FlattenFrom(FlattenOne(df, df.columns[c]), c + 1)

\* line 70 raises on a duplicated column name: df[col] is then a DataFrame,
\* which has no dtype (AttributeError), and nothing is kept of the frame
FlattenRaises(df) == HasDuplicateColumns(df)

FlattenColumns(df) == FlattenFrom(df, 1)

\* Arrow converts a column only if its non-null cells are of one type
ArrowCompatible(df) ==
    \A c \in 1..Len(df.columns) : \A r1, r2 \in 1..Len(df.rows) :
        \/ IsNull(df.rows[r1][c])
        \/ IsNull(df.rows[r2][c])
        \/ df.rows[r1][c].t = df.rows[r2][c].t

\* df.to_parquet(file, index=False) raises: the conversion fails, or the
\* disk refuses the write
ToParquetRaises(df, disk_ok) == ~disk_ok \/ ~ArrowCompatible(df)

\* the tables to_parquet(index=False) may store: the row index is not kept,
\* so a frame without columns is stored with its row count or, when the
\* engine takes the count from the columns, with no rows
Stored(df) ==
    IF df.columns = <<>>
    THEN {df, [columns |-> <<>>, rows |-> <<>>]}
    ELSE {df}

\* len(df)
NRows(df) == Len(df.rows)

----------------------------------------------------------------------------
(* The pipeline, main()                                                    *)

VARIABLES
    pc,             \* where main() is
    idx,            \* position of the loop of line 59 in endpoints
    brick,          \* the directory brick/: file name -> stored table
    dataframes,     \* line 57: name -> DataFrame
    outcome,        \* per endpoint, what the run printed for it
    saved,          \* names of the files this run has written
    todo,           \* line 120: the files the reporter has still to read
    visited,        \* line 123: the per-file lines printed so far
    total_records,  \* line 119
    summary,        \* line 125: the Total line, once printed
    exc,            \* the uncaught exception that ended the run, if any
    refused,        \* how many writes the disk has refused in this run
    n_pc,           \* the single-table run: its position,
    n_data,         \*   the Records fetched,
    n_raw,          \*   the frame after line 66,
    n_df            \*   the frame after line 76

pipeline_vars == <<pc, idx, brick, dataframes, outcome, saved, todo, visited,
                   total_records, summary, exc, refused>>

table_vars == <<n_pc, n_data, n_raw, n_df>>

vars == <<pc, idx, brick, dataframes, outcome, saved, todo, visited,
          total_records, summary, exc, refused, n_pc, n_data, n_raw, n_df>>

s_gene == <<"g","e","n","e">>

s_allele == <<"a","l","l","e","l","e">>

s_drug == <<"d","r","u","g">>

s_guideline == <<"g","u","i","d","e","l","i","n","e">>

s_recommendation == <<"r","e","c","o","m","m","e","n","d","a","t","i","o","n">>

s_diplotype == <<"d","i","p","l","o","t","y","p","e">>

s_pair == <<"p","a","i","r">>

\* lines 47-55: (name, endpoint) in insertion order
endpoints == << <<s_gene, s_gene>>, <<s_allele, s_allele>>, <<s_drug, s_drug>>,
                <<s_guideline, s_guideline>>,
                <<s_recommendation, s_recommendation>>,
                <<s_diplotype, s_diplotype>>, <<s_pair, s_pair>> >>

Names == {endpoints[k][1] : k \in 1..Len(endpoints)}

s_id == <<"i","d">>

s_genesymbol == <<"g","e","n","e","s","y","m","b","o","l">>

s_name == <<"n","a","m","e">>

s_functionalstatus ==
    <<"f","u","n","c","t","i","o","n","a","l","s","t","a","t","u","s">>

s_clinicalfunctionalstatus ==
    <<"c","l","i","n","i","c","a","l">> \o s_functionalstatus

s_activityvalue == <<"a","c","t","i","v","i","t","y","v","a","l","u","e">>

s_strength == <<"s","t","r","e","n","g","t","h">>

\* lines 95-96
key_cols == <<s_id, s_genesymbol, s_name, s_functionalstatus,
              s_clinicalfunctionalstatus, s_activityvalue, s_strength>>

\* line 81: f"cpic_{name}.parquet", relative to brick/
OutputFile(name) ==
    <<"c","p","i","c","_">> \o name \o <<".","p","a","r","q","u","e","t">>

\* line 100
summary_file == OutputFile(s_allele \o <<"_","f","u","n","c","t","i","o","n","s">>)

HasFile(b, f) == f \in DOMAIN b

Put(b, f, t) == [g \in (DOMAIN b) \cup {f} |-> IF g = f THEN t ELSE b[g]]

----------------------------------------------------------------------------
(* What the API may answer (fetch_endpoint, lines 17-24)                   *)

HTTPError == [status |-> "error", data |-> <<>>]

Ok(data) == [status |-> "ok", data |-> data]

\* []
NoRecords == <<>>

\* [{"Name": "x", "id": 7}]
OneRecord == << << <<<<"N","a","m","e">>, Str(<<"x">>)>>, <<s_id, Num(7)>> >> >>

\* [{"id": 1, "Functional-Status": {"k": 1}}, {"id": 2, "Functional-Status": null}]
TwoRecords ==
    << << <<s_id, Num(1)>>,
          <<<<"F","u","n","c","t","i","o","n","a","l","-","S","t","a","t","u","s">>,
            Dict(<< <<<<"k">>, Num(1)>> >>)>> >>,
       << <<s_id, Num(2)>>,
          <<<<"F","u","n","c","t","i","o","n","a","l","-","S","t","a","t","u","s">>,
            Null>> >> >>

\* [{}]
EmptyRecord == << <<>> >>

\* [{"id": "a"}, {"id": {"k": 1}}]
MixedId ==
    << << <<s_id, Str(<<"a">>)>> >>,
       << <<s_id, Dict(<< <<<<"k">>, Num(1)>> >>)>> >> >>

\* [{"id": 1, "x": "a"}, {"id": 2, "x": [1]}]
MixedOther ==
    << << <<s_id, Num(1)>>, <<<<"x">>, Str(<<"a">>)>> >>,
       << <<s_id, Num(2)>>, <<<<"x">>, List(<<Num(1)>>)>> >> >>

\* [{"Id": 1, "id": 2}]
DuplicateKeys == << << <<<<"I","d">>, Num(1)>>, <<s_id, Num(2)>> >> >>

\* [{"x": 1}, {"x": 2}]
NoKeyCols == << << <<<<"x">>, Num(1)>> >>, << <<<<"x">>, Num(2)>> >> >>

\* every endpoint may fail or answer one Record; gene, allele and drug may
\* answer no Record; gene and allele have the answers that single them out
Responses(endpoint) ==
    {HTTPError, Ok(OneRecord)}
    \cup (IF endpoint \in {s_gene, s_allele, s_drug} THEN {Ok(NoRecords)} ELSE {})
    \cup (IF endpoint = s_gene THEN {Ok(EmptyRecord)} ELSE {})
    \cup (IF endpoint = s_allele
          THEN {Ok(TwoRecords), Ok(MixedId), Ok(MixedOther),
                Ok(DuplicateKeys), Ok(NoKeyCols)}
          ELSE {})

\* lines 63-76 on the Records fetched
Normalized(data) == FlattenColumns(RenameColumns(DataFrame(data)))

AvailableColsTableOrder(df) ==
    SelectSeq(df.columns, LAMBDA c : IsIn(key_cols, c))

\* line 97: [c for c in key_cols if c in allele_df.columns]
AvailableCols(df) == SelectSeq(key_cols, LAMBDA c : IsIn(df.columns, c))

\* line 99: allele_df[available_cols].copy()
Project(df, cols) ==
    [columns |-> cols,
     rows    |-> [r \in 1..Len(df.rows) |->
                    [c \in 1..Len(cols) |-> df.rows[r][IndexIn(df.columns, cols[c])]]]]

EndsWith(f, suffix) ==
    /\ Len(f) >= Len(suffix)
    /\ SubSeq(f, Len(f) - Len(suffix) + 1, Len(f)) = suffix

\* brick_path.glob("*.parquet")
Glob(b) == {f \in DOMAIN b : EndsWith(f, <<".","p","a","r","q","u","e","t">>)}

RECURSIVE Unsorted(_)
Unsorted(S) ==
    IF S = {} THEN <<>>
    ELSE LET m == CHOOSE x \in S : \A y \in S \ {x} : StrLess(y, x)
         IN  <<m>> \o Unsorted(S \ {m})

\* sorted(...): ascending by name
RECURSIVE Sorted(_)
Sorted(S) ==
    IF S = {} THEN <<>>
    ELSE LET m == CHOOSE x \in S : \A y \in S \ {x} : StrLess(x, y)
         IN  <<m>> \o Sorted(S \ {m})

\* brick/ as left by a run in which allele and drug answered OneRecord and
\* the other endpoints failed
StaleBrick ==
    [f \in {OutputFile(s_allele), OutputFile(s_drug), summary_file} |->
        IF f = summary_file
        THEN Project(Normalized(OneRecord), AvailableCols(Normalized(OneRecord)))
        ELSE Normalized(OneRecord)]

\* brick/ at the start of a run: absent or empty, or left by an earlier run
PriorBricks == {<<>>, StaleBrick}

\* the writes of one run that the disk may refuse
MaxRefused == 1

\* whether the disk takes the write of a frame that Arrow has converted
DiskAnswers(df) ==
    IF ArrowCompatible(df) /\ refused < MaxRefused THEN BOOLEAN ELSE {TRUE}

NoFrame == [columns |-> <<>>, rows |-> <<>>]

Printed(st, n) == [st |-> st, n |-> n]

Init ==
    /\ pc = "loop"
    /\ idx = 1
    /\ brick \in PriorBricks
    /\ dataframes = <<>>
    /\ outcome = [n \in Names |-> Printed("pending", 0)]
    /\ saved = {}
    /\ todo = <<>>
    /\ visited = <<>>
    /\ total_records = 0
    /\ summary = <<>>
    /\ exc = "none"
    /\ refused = 0
    /\ n_pc = "off"
    /\ n_data = <<>>
    /\ n_raw = NoFrame
    /\ n_df = NoFrame

\* lines 59-85: one pass of the loop, the whole try block
ProcessEndpoint ==
    /\ pc = "loop"
    /\ idx <= Len(endpoints)
    /\ LET name     == endpoints[idx][1]
           endpoint == endpoints[idx][2]
       IN  \E resp \in Responses(endpoint) :
             IF resp.status = "error"
             THEN /\ outcome' = [outcome EXCEPT ![name] = Printed("fetch_error", 0)]
                  /\ UNCHANGED <<brick, dataframes, saved, refused>>
             ELSE IF resp.data = <<>>
             THEN /\ outcome' = [outcome EXCEPT ![name] = Printed("empty", 0)]
                  /\ UNCHANGED <<brick, dataframes, saved, refused>>
             ELSE LET raw == RenameColumns(DataFrame(resp.data))
                      n   == Len(resp.data)
                  IN  IF FlattenRaises(raw)
                      THEN /\ outcome' = [outcome EXCEPT
                                            ![name] = Printed("normalize_error", n)]
                           /\ UNCHANGED <<brick, dataframes, saved, refused>>
                      ELSE LET df == FlattenColumns(raw) IN
                           /\ dataframes' = Put(dataframes, name, df)
                           /\ \E disk_ok \in DiskAnswers(df) :
                                /\ refused' = IF disk_ok THEN refused ELSE refused + 1
                                /\ IF ToParquetRaises(df, disk_ok)
                                   THEN /\ outcome' = [outcome EXCEPT
                                                ![name] = Printed("write_error", n)]
                                        /\ UNCHANGED <<brick, saved>>
                                   ELSE /\ \E t \in Stored(df) :
                                             brick' = Put(brick, OutputFile(name), t)
                                        /\ saved' = saved \cup {OutputFile(name)}
                                        /\ outcome' = [outcome EXCEPT
                                                ![name] = Printed("saved", n)]
    /\ idx' = idx + 1
    /\ pc' = IF idx = Len(endpoints) THEN "allele_summary" ELSE "loop"
    /\ UNCHANGED <<todo, visited, total_records, summary, exc>>
    /\ UNCHANGED table_vars

\* lines 88-102; the write of line 101 is outside any try
AlleleSummary ==
    /\ pc = "allele_summary"
    /\ IF s_allele \in DOMAIN dataframes
       THEN LET allele_df      == dataframes[s_allele]
                available_cols == AvailableCols(allele_df)
                allele_summary == Project(allele_df, available_cols)
            IN  \E disk_ok \in DiskAnswers(allele_summary) :
                  /\ refused' = IF disk_ok THEN refused ELSE refused + 1
                  /\ IF ToParquetRaises(allele_summary, disk_ok)
                     THEN /\ pc' = "crashed"
                          /\ exc' = "to_parquet"
                          /\ UNCHANGED <<brick, saved>>
                     ELSE /\ \E t \in Stored(allele_summary) :
                               brick' = Put(brick, summary_file, t)
                          /\ saved' = saved \cup {summary_file}
                          /\ pc' = "recommendation_summary"
                          /\ UNCHANGED exc
       ELSE /\ pc' = "recommendation_summary"
            /\ UNCHANGED <<brick, saved, exc, refused>>
    /\ UNCHANGED <<idx, dataframes, outcome, todo, visited, total_records, summary>>
    /\ UNCHANGED table_vars

\* lines 105-113: prints a note, writes nothing
RecommendationSummary ==
    /\ pc = "recommendation_summary"
    /\ pc' = "report_start"
    /\ UNCHANGED <<idx, brick, dataframes, outcome, saved, todo, visited,
                   total_records, summary, exc, refused>>
    /\ UNCHANGED table_vars

\* lines 119-120: the list of files is taken once, sorted
ReportStart ==
    /\ pc = "report_start"
    /\ total_records' = 0
    /\ todo' = Sorted(Glob(brick))
    /\ pc' = "report"
    /\ UNCHANGED <<idx, brick, dataframes, outcome, saved, visited, summary, exc,
                   refused>>
    /\ UNCHANGED table_vars

\* lines 121-123: read one file back; a failed read is not caught
ReportFile ==
    /\ pc = "report"
    /\ todo # <<>>
    /\ \E readable \in BOOLEAN :
         IF readable
         THEN LET f  == Head(todo)
                  df == brick[f]
              IN  /\ total_records' = total_records + NRows(df)
                  /\ visited' = Append(visited, [name |-> f, rows |-> NRows(df),
                                                 columns |-> Len(df.columns)])
                  /\ todo' = Tail(todo)
                  /\ UNCHANGED <<pc, exc>>
         ELSE /\ pc' = "crashed"
              /\ exc' = "read_parquet"
              /\ UNCHANGED <<todo, visited, total_records>>
    /\ UNCHANGED <<idx, brick, dataframes, outcome, saved, summary, refused>>
    /\ UNCHANGED table_vars

\* line 125
ReportTotal ==
    /\ pc = "report"
    /\ todo = <<>>
    /\ summary' = <<[total |-> total_records, files |-> Cardinality(Glob(brick))]>>
    /\ pc' = "done"
    /\ UNCHANGED <<idx, brick, dataframes, outcome, saved, todo, visited,
                   total_records, exc, refused>>
    /\ UNCHANGED table_vars

Next ==
    \/ ProcessEndpoint
    \/ AlleleSummary
    \/ RecommendationSummary
    \/ ReportStart
    \/ ReportFile
    \/ ReportTotal

Spec == Init /\ [][Next]_vars

----------------------------------------------------------------------------
(* One table on its own: lines 63-82 applied to the Records of one fetch   *)

\* the Records of one response
MaxRecords == 3

s_gene_symbol == <<"g","e","n","e","_","s","y","m","b","o","l">>

\* source keys: two that differ only in case and space/underscore, one with
\* surrounding spaces and a hyphen
NormKeys ==
    { <<"G","e","n","e"," ","S","y","m","b","o","l">>,
      s_gene_symbol,
      <<" ","C","h","r","-","X"," ">> }

\* null, 12, "a\"", {"k": [1, null]}, ["b", {}]
NormValues ==
    { Null,
      Num(12),
      Str(<<"a", "\"">>),
      Dict(<< <<<<"k">>, List(<<Num(1), Null>>)>> >>),
      List(<<Str(<<"b">>), Dict(<<>>)>>) }

NormRecords == {<< <<k, v>> >> : k \in NormKeys, v \in NormValues}

NormData == UNION {[1..n -> NormRecords] : n \in 1..MaxRecords}

NormInit ==
    /\ n_pc = "fetched"
    /\ n_data \in NormData
    /\ n_raw = NoFrame
    /\ n_df = NoFrame
    /\ pc = "off"
    /\ idx = 1
    /\ brick = <<>>
    /\ dataframes = <<>>
    /\ outcome = [n \in Names |-> Printed("pending", 0)]
    /\ saved = {}
    /\ todo = <<>>
    /\ visited = <<>>
    /\ total_records = 0
    /\ summary = <<>>
    /\ exc = "none"
    /\ refused = 0

\* lines 63-66
BuildFrame ==
    /\ n_pc = "fetched"
    /\ n_raw' = RenameColumns(DataFrame(n_data))
    /\ n_pc' = "renamed"
    /\ UNCHANGED <<n_data, n_df>>
    /\ UNCHANGED pipeline_vars

\* lines 68-76
FlattenFrame ==
    /\ n_pc = "renamed"
    /\ IF FlattenRaises(n_raw)
       THEN n_pc' = "error" /\ UNCHANGED n_df
       ELSE n_pc' = "flattened" /\ n_df' = FlattenColumns(n_raw)
    /\ UNCHANGED <<n_data, n_raw>>
    /\ UNCHANGED pipeline_vars

\* lines 78-83
WriteFrame ==
    /\ n_pc = "flattened"
    /\ \E disk_ok \in DiskAnswers(n_df) :
         /\ refused' = IF disk_ok THEN refused ELSE refused + 1
         /\ n_pc' = IF ToParquetRaises(n_df, disk_ok) THEN "error" ELSE "saved"
    /\ UNCHANGED <<n_data, n_raw, n_df>>
    /\ UNCHANGED <<pc, idx, brick, dataframes, outcome, saved, todo, visited,
                   total_records, summary, exc>>

NormNext == BuildFrame \/ FlattenFrame \/ WriteFrame

SpecNorm == NormInit /\ [][NormNext]_vars

----------------------------------------------------------------------------
(* Properties                                                              *)

Finished == pc \in {"done", "crashed"}

\* the fetch of the endpoint returned (no HTTP error)
FetchOk(name) ==
    outcome[name].st \in {"empty", "normalize_error", "write_error", "saved"}

RECURSIVE SumLines(_)
SumLines(lines) ==
    IF lines = <<>> THEN 0 ELSE Head(lines).rows + SumLines(Tail(lines))

RECURSIVE SumFiles(_, _)
SumFiles(b, S) ==
    IF S = {} THEN 0
    ELSE LET f == CHOOSE x \in S : TRUE
         IN  NRows(b[f]) + SumFiles(b, S \ {f})

\* the first non-null cell of column c of a frame, <<>> if there is none
FirstNonNull(df, c) ==
    LET rs == {r \in 1..Len(df.rows) : ~IsNull(df.rows[r][c])}
    IN  IF rs = {} THEN <<>>
        ELSE <<df.rows[CHOOSE r \in rs : \A q \in rs : r <= q][c]>>

\* C1, as claimed: for every endpoint whose fetch succeeds and returns N
\* records, N >= 0 and of any shape, once main() has finished the file
\* cpic_E.parquet exists and holds exactly N rows.  (Stated for the runs in
\* which the disk refuses no write.)
C1_EveryFetchGivesFile ==
    (pc = "done" /\ refused = 0) =>
        \A name \in Names :
            FetchOk(name) =>
                /\ HasFile(brick, OutputFile(name))
                /\ NRows(brick[OutputFile(name)]) = outcome[name].n

\* C1, amended: for every endpoint whose fetch returns N >= 1 records that
\* have at least one key, and whose normalization and write succeed (its
\* "Saved" line is printed), once main() has finished the file
\* cpic_E.parquet exists and holds exactly N rows.
C1_SavedFileHoldsEveryRecord ==
    Finished =>
        \A name \in Names :
            (outcome[name].st = "saved" /\ dataframes[name].columns # <<>>) =>
                /\ outcome[name].n >= 1
                /\ HasFile(brick, OutputFile(name))
                /\ NRows(brick[OutputFile(name)]) = outcome[name].n

\* a finished run that saved the two Records of allele, one with a null cell
C1_Witness ==
    /\ pc = "done"
    /\ outcome[s_allele] = Printed("saved", Len(TwoRecords))
    /\ NRows(brick[OutputFile(s_allele)]) = Len(TwoRecords)

\* C2, as claimed: if the fetch of drug raises an HTTP error, the file of
\* every other endpoint that the run fetched and saved is in brick/ when the
\* run ends, and the total printed counts no row of a cpic_drug.parquet,
\* whatever brick/ held before the run.
C2_DrugFailureIsolated ==
    (pc = "done" /\ outcome[s_drug].st = "fetch_error") =>
        /\ \A name \in Names \ {s_drug} :
               outcome[name].st = "saved" => HasFile(brick, OutputFile(name))
        /\ summary[1].total =
               SumLines(SelectSeq(visited, LAMBDA l : l.name # OutputFile(s_drug)))

\* C3, as claimed: an endpoint that fails at its fetch, its normalization or
\* its write has no entry in dataframes, and a failed write of
\* cpic_allele.parquet means cpic_allele_functions.parquet is not produced.
\* (Stated for the runs in which the disk refuses no write: the writes that
\* fail are those of a Table that Arrow cannot convert.)
C3_FailedEndpointLeavesNoTable ==
    refused = 0 =>
        /\ \A name \in Names :
               outcome[name].st \in {"fetch_error", "normalize_error", "write_error"}
                   => name \notin DOMAIN dataframes
        /\ outcome[s_allele].st = "write_error" => summary_file \notin saved

\* C4, as claimed: after a run every file of brick/ is accounted for by that
\* run: cpic_E.parquet only if E's fetch succeeded with at least one record,
\* cpic_allele_functions.parquet only if the run has a Table of allele.
C4_NoFileFromEarlierRun ==
    pc = "done" =>
        \A f \in DOMAIN brick :
            /\ f = summary_file \/ \E name \in Names : f = OutputFile(name)
            /\ \A name \in Names :
                   f = OutputFile(name) => (FetchOk(name) /\ outcome[name].n >= 1)
            /\ f = summary_file => s_allele \in DOMAIN dataframes

\* the columns cols are the members of key_cols that are columns in have,
\* in the order of key_cols
IsKeySublist(cols, have) ==
    /\ \A i \in 1..Len(cols) : IsIn(key_cols, cols[i]) /\ IsIn(have, cols[i])
    /\ \A k \in 1..Len(key_cols) : IsIn(have, key_cols[k]) => IsIn(cols, key_cols[k])
    /\ \A i, j \in 1..Len(cols) :
           i < j => IndexIn(key_cols, cols[i]) < IndexIn(key_cols, cols[j])

\* C6, as claimed: whenever cpic_allele_functions.parquet is written, its
\* columns are the sublist of key_cols present in the allele Table, and its
\* row count is the row count of the allele Table.
C6_SummaryIsProjection ==
    (summary_file \in saved /\ refused = 0) =>
        /\ IsKeySublist(brick[summary_file].columns, dataframes[s_allele].columns)
        /\ NRows(brick[summary_file]) = NRows(dataframes[s_allele])

\* C6, amended: whenever cpic_allele_functions.parquet is written, its
\* columns are the sublist of key_cols (in that order) present in the allele
\* Table, and, when that sublist is not empty, its row count is the row
\* count of the allele Table.
C6_SummaryColumnsAndRows ==
    summary_file \in saved =>
        /\ IsKeySublist(brick[summary_file].columns, dataframes[s_allele].columns)
        /\ brick[summary_file].columns # <<>> =>
               NRows(brick[summary_file]) = NRows(dataframes[s_allele])

\* the summary of an allele Table whose columns are name, id: id comes first
C6_Witness ==
    /\ summary_file \in saved
    /\ dataframes[s_allele].columns = <<s_name, s_id>>
    /\ brick[summary_file].columns = <<s_id, s_name>>
    /\ NRows(brick[summary_file]) = Len(OneRecord)

\* C8, as claimed: no HTTP error and no write error ends a run, the write of
\* cpic_allele_functions.parquet included; only a failed read-back in the
\* reporter does.  (Stated for the runs in which the disk refuses no write.)
C8_OnlyReadBackEndsRun ==
    (pc = "crashed" /\ refused = 0) => exc = "read_parquet"

\* C10: the reporter reads the *.parquet files of brick/ in ascending order
\* of name, each once; when it ends, it has read them all, the total it
\* prints is the sum of their row counts and the file count is their number;
\* a failed read ends the run with no total printed.
C10_ReporterTotals ==
    /\ \A i, j \in 1..Len(visited) :
           i < j => StrLess(visited[i].name, visited[j].name)
    /\ \A i \in 1..Len(visited) :
           /\ HasFile(brick, visited[i].name)
           /\ visited[i].rows = NRows(brick[visited[i].name])
    /\ pc = "done" =>
           /\ {visited[i].name : i \in 1..Len(visited)} = DOMAIN brick
           /\ summary = <<[total |-> SumFiles(brick, DOMAIN brick),
                           files |-> Len(visited)]>>
    /\ pc # "done" => summary = <<>>

\* a run that ends with cpic_allele.parquet and cpic_allele_functions.parquet
\* only, of two rows each, and prints the total of both
C10_Witness ==
    /\ pc = "done"
    /\ DOMAIN brick = {OutputFile(s_allele), summary_file}
    /\ visited[1].name = OutputFile(s_allele)
    /\ visited[2].name = summary_file
    /\ summary[1].total = Len(TwoRecords) + Len(TwoRecords)

LowerCase(s) == \A p \in 1..Len(s) : ~IsIn(Uppers, s[p])

\* C5: in every Table written to a file the column names are lower-case,
\* hold no space and no hyphen (an underscore stands where the stripped
\* source key has one), and are pairwise distinct.
C5_ColumnNames ==
    n_pc = "saved" =>
        LET keys == UnionKeys(<<>>, n_data) IN
        /\ Len(n_df.columns) = Len(keys)
        /\ \A c \in 1..Len(n_df.columns) :
               /\ LowerCase(n_df.columns[c])
               /\ ~IsIn(n_df.columns[c], " ")
               /\ ~IsIn(n_df.columns[c], "-")
               /\ Len(n_df.columns[c]) = Len(Strip(keys[c]))
               /\ \A p \in 1..Len(n_df.columns[c]) :
                      Strip(keys[c])[p] \in {" ", "-"} => n_df.columns[c][p] = "_"
        /\ \A c, d \in 1..Len(n_df.columns) :
               c # d => n_df.columns[c] # n_df.columns[d]

\* the Table of the keys "Gene Symbol" and " Chr-X " is written
C5_Witness ==
    /\ n_pc = "saved"
    /\ n_df.columns = <<s_gene_symbol, <<"c","h","r","_","x">>>>

Normalized_pc == n_pc \in {"flattened", "saved"}

\* C7, as claimed: after normalization no cell of the Table is a dict or a
\* list, also in columns that mix dict, list and scalar cells.
C7_NoNestedCell ==
    Normalized_pc =>
        \A r \in 1..Len(n_df.rows) : \A c \in 1..Len(n_df.columns) :
            ~IsNested(n_df.rows[r][c])

\* C7, amended: after normalization no cell of a column whose first non-null
\* value is a dict is a dict, and no cell of a column whose first non-null
\* value is a list is a list (each is replaced by its JSON text); a column
\* whose nested cells are all of the kind of its first non-null value has
\* only scalar cells.
C7_FirstKindFlattened ==
    Normalized_pc =>
        \A c \in 1..Len(n_df.columns) :
            LET first == FirstNonNull(n_raw, c)
                kinds == {n_raw.rows[r][c].t : r \in 1..Len(n_raw.rows)}
                           \cap {"dict", "list"}
            IN  /\ (first # <<>> /\ IsDict(first[1])) =>
                       \A r \in 1..Len(n_df.rows) : ~IsDict(n_df.rows[r][c])
                /\ (first # <<>> /\ IsList(first[1])) =>
                       \A r \in 1..Len(n_df.rows) : ~IsList(n_df.rows[r][c])
                /\ (first # <<>> /\ kinds = {first[1].t}) =>
                       \A r \in 1..Len(n_df.rows) : ~IsNested(n_df.rows[r][c])

\* a column of a dict, then a list: the dict is flattened, the list is kept
C7_Witness ==
    /\ n_pc = "flattened"
    /\ Len(n_raw.rows) = 2
    /\ IsDict(n_raw.rows[1][1])
    /\ IsList(n_raw.rows[2][1])
    /\ n_df.rows[1][1].t = "str"
    /\ IsList(n_df.rows[2][1])

\* C9: the first non-null value of a column decides for the whole column: a
\* dict, and every dict cell becomes a str that parses back to the dict and
\* no other cell changes; a list, and the same holds of the list cells; a
\* scalar, or no value at all, and no cell changes.
C9_FirstSampleDecides ==
    Normalized_pc =>
        /\ n_df.columns = n_raw.columns
        /\ Len(n_df.rows) = Len(n_raw.rows)
        /\ \A c \in 1..Len(n_raw.columns) : \A r \in 1..Len(n_raw.rows) :
               LET first == FirstNonNull(n_raw, c)
                   x     == n_raw.rows[r][c]
                   y     == n_df.rows[r][c]
                   kind  == IF first = <<>> THEN "null" ELSE first[1].t
               IN  IF kind \in {"dict", "list"} /\ x.t = kind
                   THEN y.t = "str" /\ Loads(y.v) = x
                   ELSE y = x

\* a column null, dict, list: the dict becomes text, the list stays
C9_Witness ==
    /\ n_pc = "flattened"
    /\ Len(n_raw.rows) = 3
    /\ IsNull(n_raw.rows[1][1])
    /\ IsDict(n_raw.rows[2][1])
    /\ IsList(n_raw.rows[3][1])
    /\ n_df.rows[2][1].t = "str"
    /\ n_df.rows[3][1] = n_raw.rows[3][1]

====
